---- MODULE Spec2Model ----
(***************************************************************************)
(* Goal-Based Budget Optimizer (src/app.py): a Streamlit script that is    *)
(* re-run from top to bottom on every user action.  The session state      *)
(* (st.session_state.messages, st.session_state.parsed_summary), the file  *)
(* held by the uploader widget and what one run of the script shows and    *)
(* sends are the state; attaching a file, removing it and submitting a     *)
(* chat message are the actions, each one whole run of the script.         *)
(*                                                                         *)
(* Text is kept as TLA+ strings and an f-string is the concatenation it    *)
(* builds.  The filled prompt template is the sequence of its pieces in    *)
(* the order the template puts them.  Characters outside ASCII are written *)
(* in ASCII: the rupee sign as INR, the warning sign of the error reply as *)
(* [!].  Amounts are decimals with two places, held as an integer number   *)
(* of hundredths, which the :,.2f format prints exactly.                   *)
(***************************************************************************)
EXTENDS Integers, Sequences, FiniteSets, TLC

VARIABLES
    messages,        \* st.session_state.messages
    parsed_summary,  \* st.session_state.parsed_summary
    uploaded_file,   \* the value of st.file_uploader: the attached table, or NoFile
    df,              \* the run's df: what parse_expense_csv returned, NoFrame for None
    top_categories,  \* the run's top_categories, <<>> when the run computed none
    banner,          \* the sidebar banner of the run: st.error / st.success
    user_input,      \* the run's user_input, "" when st.chat_input returned None
    predict_result,  \* what predict did in the run: a reply or an exception
    prompt,          \* the payload of the latest conversation_chain.predict call
    stable_sort      \* whether the sort inside value_counts keeps the order of ties

vars ==
    <<messages, parsed_summary, uploaded_file, df, top_categories, banner,
      user_input, predict_result, prompt, stable_sort>>

----------------------------------------------------------------------------
(* Bounds of the model.                                                    *)

\* Chat turns submitted in one session.
MaxTurns == 2

\* Rows of an uploaded table under the two usual headers.
MaxRows == 7

\* Rows of an uploaded table under any other header.
MaxRowsAnyHeader == 1

----------------------------------------------------------------------------
(* Sequence helpers.                                                       *)

Range(s) == {s[i] : i \in DOMAIN s}

Reverse(s) == [i \in 1..Len(s) |-> s[Len(s) + 1 - i]]

RECURSIVE SumSeq(_)
SumSeq(s) == IF s = <<>> THEN 0 ELSE Head(s) + SumSeq(Tail(s))

----------------------------------------------------------------------------
(* Text conversions, each a table over the cell texts the model uses.      *)

\* str.lower() on a cell's text.
Lower(s) ==
    CASE s = "Coffee"  -> "coffee"
      [] s = "COFFEE"  -> "coffee"
      [] s = "Rent"    -> "rent"
      [] s = "DEBIT"   -> "debit"
      [] s = "Debit"   -> "debit"
      [] s = "Credit"  -> "credit"
      [] OTHER         -> s

\* astype(str) on a cell read by pd.read_csv: an empty cell was read as NaN
\* and prints as "nan".
AsStr(s) == IF s = "" THEN "nan" ELSE s

\* str.title() on a lowercased description.
Title(s) ==
    CASE s = "coffee" -> "Coffee"
      [] s = "rent"   -> "Rent"
      [] s = "gym"    -> "Gym"
      [] s = "fuel"   -> "Fuel"
      [] s = "taxi"   -> "Taxi"
      [] s = "salary" -> "Salary"
      [] s = "nan"    -> "Nan"
      [] OTHER        -> s

\* The texts pd.to_numeric parses, with their value in hundredths.  A text
\* with a thousands separator, a word and an empty cell are not among them.
NumericText ==
    [s \in {"3.50", "120.00", "900.00", "20.00", "-5.25", "7.00", "0"} |->
        CASE s = "3.50"   -> 350
          [] s = "120.00" -> 12000
          [] s = "900.00" -> 90000
          [] s = "20.00"  -> 2000
          [] s = "-5.25"  -> -525
          [] s = "7.00"   -> 700
          [] OTHER        -> 0]

IsNumeric(s) == s \in DOMAIN NumericText

\* Mutant of ToNumeric: the thousands separator is read, as with thousands=','.
ToNumericThousands(s) ==
    IF IsNumeric(s) THEN NumericText[s] ELSE IF s = "1,200.00" THEN 120000 ELSE 0

\* pd.to_numeric(cell, errors='coerce') followed by fillna(0).
ToNumeric(s) == IF IsNumeric(s) THEN NumericText[s] ELSE 0

Digits2(k) == IF k < 10 THEN "0" \o ToString(k) ELSE ToString(k)

Digits3(k) == IF k < 100 THEN "0" \o Digits2(k) ELSE ToString(k)

RECURSIVE Grouped(_)
Grouped(k) ==
    IF k < 1000 THEN ToString(k)
    ELSE Grouped(k \div 1000) \o "," \o Digits3(k % 1000)

\* The format :,.2f of an amount held in hundredths.
Format2f(n) ==
    LET a == IF n < 0 THEN -n ELSE n
    IN  (IF n < 0 THEN "-" ELSE "") \o Grouped(a \div 100) \o "." \o Digits2(a % 100)

----------------------------------------------------------------------------
(* parse_expense_csv.  A file is the table pd.read_csv reads from it:      *)
(* [columns |-> the header names, rows |-> a sequence of functions from    *)
(* the header names to cell texts].  read_csv never yields the same header *)
(* name twice, so the header is a set; a file without a header line has    *)
(* columns = {} and read_csv raises on it.                                 *)

NoFile == [columns |-> {"<no file>"}, rows |-> <<>>]

NoFrame == [frame |-> FALSE, rows |-> <<>>]

Frame(rows) == [frame |-> TRUE, rows |-> rows]

\* column_mapping.get(col, col)
column_mapping(col) ==
    CASE col = "Narration / Description" -> "Description"
      [] col = "Amount (INR)"            -> "Amount"
      [] col = "Balance (INR)"           -> "Balance"
      [] col = "Reference No."           -> "Reference Number"
      [] OTHER                           -> col

\* df.rename(columns=...): each column of the file with its new label.
Rename(file) == [c \in file.columns |-> column_mapping(c)]

required_columns == <<"Date", "Description", "Amount", "Type">>

\* col in df.columns
InColumns(labels, col) == \E c \in DOMAIN labels : labels[c] = col

\* The columns df[col] selects: one gives a Series, several a DataFrame.
Selected(labels, col) == {c \in DOMAIN labels : labels[c] = col}

\* The required columns the loop finds missing, in the loop's order.
MissingColumns(labels) ==
    SelectSeq(required_columns, LAMBDA col : ~InColumns(labels, col))

\* Mutant of MissingColumnError: the message names the first required
\* column, not the one the loop found missing.
MissingColumnErrorFirstRequired(labels) ==
    "CSV is missing the required column: '" \o Head(required_columns) \o "'"

\* The message of the ValueError the loop raises: at the first missing column.
MissingColumnError(labels) ==
    "CSV is missing the required column: '" \o Head(MissingColumns(labels)) \o "'"

\* df[df['Type'] == 'debit']
IsDebit(row) == row.Type = "debit"

\* Mutant of CleanRow: Type is compared as written, not lowercased.
CleanRowTypeAsIs(labels, row) ==
    LET col(name) == CHOOSE c \in Selected(labels, name) : TRUE
    IN  [Description |-> Lower(AsStr(row[col("Description")])),
         Amount      |-> ToNumeric(row[col("Amount")]),
         Type        |-> AsStr(row[col("Type")])]

\* Lines 86-88 on one row: the cleaned Amount, Description and Type.
CleanRow(labels, row) ==
    LET col(name) == CHOOSE c \in Selected(labels, name) : TRUE
    IN  [Description |-> Lower(AsStr(row[col("Description")])),
         Amount      |-> ToNumeric(row[col("Amount")]),
         Type        |-> Lower(AsStr(row[col("Type")]))]

\* The body of the try block: [df, error], error the message of the
\* exception raised ("" when none was).  The messages of the exceptions
\* pandas raises are pandas' own.
TryParse(file) ==
    LET labels == Rename(file)
    IN  IF file.columns = {}
        THEN [df |-> NoFrame, error |-> "No columns to parse from file"]
        ELSE IF MissingColumns(labels) # <<>>
        THEN [df |-> NoFrame, error |-> MissingColumnError(labels)]
        ELSE IF Cardinality(Selected(labels, "Amount")) > 1
        THEN [df |-> NoFrame,
              error |-> "arg must be a list, tuple, 1-d array, or Series"]
        ELSE IF Cardinality(Selected(labels, "Description")) > 1
                \/ Cardinality(Selected(labels, "Type")) > 1
        THEN [df |-> NoFrame,
              error |-> "'DataFrame' object has no attribute 'str'"]
        ELSE [df |-> Frame(SelectSeq([i \in 1..Len(file.rows) |->
                                         CleanRow(labels, file.rows[i])],
                                     IsDebit)),
              error |-> ""]

\* parse_expense_csv(file): the frame, or None after st.error(...).
parse_expense_csv(file) ==
    LET t == TryParse(file)
    IN  [df     |-> t.df,
         banner |-> IF t.df = NoFrame
                    THEN [kind |-> "error",
                          text |-> "Error parsing CSV file: " \o t.error]
                    ELSE [kind |-> "none", text |-> ""]]

----------------------------------------------------------------------------
(* The upload handler: the summary of the parsed frame.                    *)

\* The number of categories .head(5) keeps.
TopN == 5

\* Series.head(n)
SeriesHead(s, n) == IF Len(s) <= n THEN s ELSE SubSeq(s, 1, n)

\* The Description column of a frame.
Descriptions(frame) == [i \in 1..Len(frame.rows) |-> frame.rows[i].Description]

\* The distinct values of a column in the order of their first appearance,
\* the order in which value_counts counts them.
RECURSIVE Uniques(_)
Uniques(col) ==
    IF col = <<>> THEN <<>>
    ELSE LET init == Uniques(SubSeq(col, 1, Len(col) - 1))
             last == col[Len(col)]
         IN  IF last \in Range(init) THEN init ELSE Append(init, last)

Occurrences(col, v) == Cardinality({i \in DOMAIN col : col[i] = v})

\* One step of the descending sort of value_counts.  The sort is pandas'
\* sort_values with its default kind, quicksort, which is not a stable sort:
\* the code does not set the order it leaves equal counts in, and the order
\* is a matter of the numpy build and of the number of entries.  When the
\* sort keeps ties, e goes behind every entry that counts at least as much,
\* so equal counts stay in the order they came in; when it does not, e goes
\* before the entries that count as much.
InsertByCount(sorted, e) ==
    LET ahead == Cardinality({i \in DOMAIN sorted :
                                \/ sorted[i].count > e.count
                                \/ stable_sort /\ sorted[i].count = e.count})
    IN  SubSeq(sorted, 1, ahead) \o <<e>> \o SubSeq(sorted, ahead + 1, Len(sorted))

RECURSIVE SortByCount(_)
SortByCount(entries) ==
    IF entries = <<>> THEN <<>>
    ELSE InsertByCount(SortByCount(SubSeq(entries, 1, Len(entries) - 1)),
                       entries[Len(entries)])

\* Series.value_counts(): (value, count) entries, by descending count.
value_counts(col) ==
    LET u == Uniques(col)
    IN  SortByCount([i \in 1..Len(u) |->
                        [category |-> u[i], count |-> Occurrences(col, u[i])]])

\* df['Amount'].sum()
total_expense(frame) ==
    SumSeq([i \in 1..Len(frame.rows) |-> frame.rows[i].Amount])

\* The lines the for loop adds to summary_str.
RECURSIVE CategoryLines(_)
CategoryLines(top) ==
    IF top = <<>> THEN ""
    ELSE "  - " \o Title(Head(top).category) \o ": " \o ToString(Head(top).count)
         \o " times\n" \o CategoryLines(Tail(top))

summary_str(total, top) ==
    "- Total Debits: INR" \o Format2f(total) \o "\n- Top 5 Expense Categories:\n"
    \o CategoryLines(top)

NoData == "No expense data has been provided yet."

FailedToProcess == "Failed to process the uploaded file."

\* Mutant of FailureSummary: a failed parse leaves the summary as it was.
FailureSummaryKept(summary) == summary

\* Line 131: what a failed parse leaves in parsed_summary.
FailureSummary(summary) == FailedToProcess

\* The sidebar block of one run: what the run leaves in parsed_summary, df,
\* top_categories and the banner, given the uploader's value.
UploadHandler(summary, file) ==
    IF file = NoFile
    THEN [parsed_summary |-> summary, df |-> NoFrame, top_categories |-> <<>>,
          banner |-> [kind |-> "none", text |-> ""]]
    ELSE LET parsed == parse_expense_csv(file)
             top    == SeriesHead(value_counts(Descriptions(parsed.df)), TopN)
         IN  IF parsed.df # NoFrame
             THEN [parsed_summary |-> summary_str(total_expense(parsed.df), top),
                   df |-> parsed.df, top_categories |-> top,
                   banner |-> [kind |-> "success",
                               text |-> "Expense data analyzed successfully!"]]
             ELSE [parsed_summary |-> FailureSummary(summary),
                   df |-> NoFrame, top_categories |-> <<>>,
                   banner |-> parsed.banner]

----------------------------------------------------------------------------
(* The chat turn.                                                          *)

SystemText == "You are a helpful and knowledgeable financial advisor. ..."

\* Mutant of Payload: the human template names expense_summary first.
PayloadSummaryFirst(input, expense_summary) ==
    << SystemText,
       "My Recent Spending Summary:\n", expense_summary,
       "\n\nMy Information:\n", input >>

\* prompt_template filled with the two inputs of predict: the system message,
\* then the human message, whose template names user_input before
\* expense_summary.
Payload(input, expense_summary) ==
    << SystemText,
       "My Information:\n", input,
       "\n\nMy Recent Spending Summary:\n", expense_summary >>

\* What conversation_chain.predict does is the collaborator's: it returns a
\* reply or raises.  An outcome is [ok, text]: the reply, or str(e).
Outcomes ==
    { [ok |-> TRUE,  text |-> "Here is your budget plan."],
      [ok |-> FALSE, text |-> "429 quota exceeded"] }

\* Mutant of Response: the error text is logged without the prefix.
ResponseNoPrefix(outcome) == outcome.text

\* The try/except around predict: the response the turn displays and logs.
Response(outcome) ==
    IF outcome.ok THEN outcome.text
    ELSE "[!] An error occurred: " \o outcome.text

\* Mutant of ChatTurn: the exception of predict is not caught, and the run
\* ends before line 164.
ChatTurnUncaught(log, input, outcome) ==
    IF outcome.ok
    THEN Append(Append(log, [role |-> "user", content |-> input]),
                [role |-> "assistant", content |-> outcome.text])
    ELSE Append(log, [role |-> "user", content |-> input])

\* Lines 146 and 164: the log after a turn.
ChatTurn(log, input, outcome) ==
    Append(Append(log, [role |-> "user", content |-> input]),
           [role |-> "assistant", content |-> Response(outcome)])

\* Mutant of MessagesAfterRun: a failed parse is also logged as a message.
MessagesAfterRunLogsError(log, file, input, outcome) ==
    LET seen == IF file # NoFile /\ parse_expense_csv(file).df = NoFrame
                THEN Append(log, [role |-> "assistant",
                                  content |-> parse_expense_csv(file).banner.text])
                ELSE log
    IN  IF input # ""
        THEN Append(Append(seen, [role |-> "user", content |-> input]),
                    [role |-> "assistant",
                     content |-> IF outcome.ok THEN outcome.text
                                 ELSE "[!] An error occurred: " \o outcome.text])
        ELSE seen

\* st.session_state.messages after one run of the script.  The input is ""
\* when st.chat_input returned None; the sidebar block does not write the log.
MessagesAfterRun(log, file, input, outcome) ==
    IF input # "" THEN ChatTurn(log, input, outcome) ELSE log

\* Mutant of SummaryAfterRun: the run of a chat turn reads the attached file
\* from where the run before left it, at its end, and the parse fails.
SummaryAfterRunReread(summary, file, input) ==
    IF input # "" /\ file # NoFile
    THEN FailedToProcess
    ELSE UploadHandler(summary, file).parsed_summary

\* st.session_state.parsed_summary after one run of the script: only the
\* sidebar block writes it.
SummaryAfterRun(summary, file, input) ==
    UploadHandler(summary, file).parsed_summary

NoOutcome == [ok |-> TRUE, text |-> ""]

\* One run of the script, top to bottom.
RunScript(file, input, outcome) ==
    LET side == UploadHandler(parsed_summary, file)
    IN  /\ parsed_summary' = SummaryAfterRun(parsed_summary, file, input)
        /\ df' = side.df
        /\ top_categories' = side.top_categories
        /\ banner' = side.banner
        /\ user_input' = input
        /\ messages' = MessagesAfterRun(messages, file, input, outcome)
        /\ predict_result' = IF input # "" THEN outcome ELSE NoOutcome
        /\ prompt' = IF input # ""
                     THEN Payload(input, parsed_summary')
                     ELSE prompt
        /\ UNCHANGED stable_sort

----------------------------------------------------------------------------
(* The inputs.                                                             *)

\* The rows tables are made of: the Description, Amount and Type cells of a
\* bank export, in several spellings, with amounts pd.to_numeric does not
\* parse and with empty cells.
Ledger ==
    << [Description |-> "Coffee", Amount |-> "3.50",     Type |-> "debit"],
       [Description |-> "rent",   Amount |-> "120.00",   Type |-> "DEBIT"],
       [Description |-> "COFFEE", Amount |-> "abc",      Type |-> "Debit"],
       [Description |-> "salary", Amount |-> "900.00",   Type |-> "Credit"],
       [Description |-> "gym",    Amount |-> "20.00",    Type |-> "debit"],
       [Description |-> "Rent",   Amount |-> "1,200.00", Type |-> "debit"],
       [Description |-> "fuel",   Amount |-> "-5.25",    Type |-> "debit"],
       [Description |-> "",       Amount |-> "",         Type |-> "debit"],
       [Description |-> "taxi",   Amount |-> "7.00",     Type |-> "refund"],
       [Description |-> "taxi",   Amount |-> "7.00",     Type |-> "debit"],
       [Description |-> "",       Amount |-> "0",        Type |-> ""] >>

\* The rows of `rows` at the positions in S, in their order.
Pick(rows, S) ==
    LET idx == SelectSeq([i \in 1..Len(rows) |-> i], LAMBDA i : i \in S)
    IN  [k \in 1..Len(idx) |-> rows[idx[k]]]

\* Selections of at most n of the rows, in their order or reversed.
RowSeqs(rows, n) ==
    LET sel == {S \in SUBSET (1..Len(rows)) : Cardinality(S) <= n}
    IN  {Pick(rows, S) : S \in sel} \cup {Pick(Reverse(rows), S) : S \in sel}

ColumnNames ==
    {"Date", "Description", "Narration / Description", "Amount", "Amount (INR)",
     "Type"}

CanonicalHeader == {"Date", "Description", "Amount", "Type"}

BankHeader ==
    {"Date", "Narration / Description", "Amount (INR)", "Type", "Balance (INR)"}

\* The table a file with these header names and these cells is read as; the
\* columns the handler never reads hold "-".
MkTable(columns, cells) ==
    [columns |-> columns,
     rows    |-> [i \in 1..Len(cells) |->
                    [c \in columns |->
                        CASE column_mapping(c) = "Description" -> cells[i].Description
                          [] column_mapping(c) = "Amount"      -> cells[i].Amount
                          [] column_mapping(c) = "Type"        -> cells[i].Type
                          [] OTHER                             -> "-"]]]

\* The tables of the ingestion runs.
IngestTables ==
    {MkTable(h, rs) :
        h \in {CanonicalHeader, BankHeader}, rs \in RowSeqs(Ledger, MaxRows)}
    \cup {MkTable(h, rs) :
        h \in SUBSET ColumnNames, rs \in RowSeqs(SubSeq(Ledger, 1, 4), MaxRowsAnyHeader)}

\* The tables uploaded during a chat session.
SessionTables ==
    { MkTable(CanonicalHeader, Pick(Ledger, {1, 2, 3})),
      MkTable(BankHeader, Pick(Ledger, {2, 4, 6, 7})),
      MkTable(CanonicalHeader \ {"Amount"}, Pick(Ledger, {1, 2, 3})),
      MkTable(CanonicalHeader \cup {"Amount (INR)"}, Pick(Ledger, {1, 2, 3})),
      MkTable({}, <<>>) }

UserInputs == {"I earn 50000 a month", "Save for a car"}

----------------------------------------------------------------------------
(* The session.                                                            *)

Init ==
    /\ messages = <<>>
    /\ parsed_summary = NoData
    /\ uploaded_file = NoFile
    /\ df = NoFrame
    /\ top_categories = <<>>
    /\ banner = [kind |-> "none", text |-> ""]
    /\ user_input = ""
    /\ predict_result = NoOutcome
    /\ prompt = <<>>
    /\ stable_sort \in BOOLEAN

\* The user attaches a file: the script runs with it and no chat input.
Upload(file) ==
    /\ uploaded_file' = file
    /\ RunScript(file, "", NoOutcome)

\* The user removes the attached file: the script runs with no file.
RemoveFile ==
    /\ uploaded_file # NoFile
    /\ uploaded_file' = NoFile
    /\ RunScript(NoFile, "", NoOutcome)

\* The user submits a chat message: the script runs with the file still
\* attached, then takes the turn.
Submit(input, outcome) ==
    /\ Len(messages) < 2 * MaxTurns
    /\ UNCHANGED uploaded_file
    /\ RunScript(uploaded_file, input, outcome)

Next ==
    \/ \E file \in SessionTables : Upload(file)
    \/ RemoveFile
    \/ \E input \in UserInputs, outcome \in Outcomes : Submit(input, outcome)

Spec == Init /\ [][Next]_vars

\* Ingestion alone: the first upload of a session, over the ingestion tables.
FirstUpload ==
    /\ uploaded_file = NoFile
    /\ \E file \in IngestTables : Upload(file)

SpecIngest == Init /\ [][FirstUpload]_vars

----------------------------------------------------------------------------
(* Properties of the session.  A run that took a chat turn is one that     *)
(* ends with user_input # "".                                              *)

Balanced(log) ==
    /\ Len(log) % 2 = 0
    /\ \A i \in DOMAIN log :
          log[i].role = IF i % 2 = 1 THEN "user" ELSE "assistant"

\* A step keeps every entry of the log where and as it was.
KeepsLog == /\ Len(messages') >= Len(messages)
            /\ SubSeq(messages', 1, Len(messages)) = messages

\* The position of the first piece of the payload p that equals x (0: none).
Position(p, x) ==
    IF \E i \in DOMAIN p : p[i] = x
    THEN CHOOSE i \in DOMAIN p : p[i] = x /\ \A j \in 1..(i - 1) : p[j] # x
    ELSE 0

\* C1: the log starts empty, its roles alternate user, assistant, every entry
\* stays where and as it was, a run that takes a turn adds exactly two
\* entries whatever predict did, and every other run adds none: after N
\* submitted messages, with any uploads in between, the log holds 2N entries.
C1_LogAppendOnlyBalanced ==
    /\ [](Balanced(messages))
    /\ [][/\ KeepsLog
          /\ user_input' # "" => Len(messages') = Len(messages) + 2
          /\ user_input' = "" => Len(messages') = Len(messages)]_vars

\* C1 witness: two turns, the first failed, with a file attached meanwhile.
C1_Witness ==
    /\ Len(messages) = 4
    /\ messages[2].content = "[!] An error occurred: 429 quota exceeded"
    /\ messages[4].content = "Here is your budget plan."
    /\ uploaded_file # NoFile

\* C2: when predict raised in a run, that run appended the user message and
\* then, as the assistant's reply, the error text behind the error prefix;
\* when it returned, the reply is the assistant's entry, also when an earlier
\* turn of the session failed.
C2_FailedTurnCompletes ==
    user_input # "" =>
        /\ Len(messages) >= 2
        /\ messages[Len(messages) - 1] = [role |-> "user", content |-> user_input]
        /\ messages[Len(messages)].role = "assistant"
        /\ ~predict_result.ok =>
              messages[Len(messages)].content
                  = "[!] An error occurred: " \o predict_result.text
        /\ predict_result.ok =>
              messages[Len(messages)].content = predict_result.text

\* C2 witness: a failed turn followed by a turn that got its reply.
C2_Witness ==
    /\ Len(messages) = 4
    /\ messages[2].content = "[!] An error occurred: 429 quota exceeded"
    /\ user_input # ""
    /\ predict_result.ok
    /\ messages[4].content = predict_result.text

\* C3 as stated: in the payload of a turn the instruction text comes first,
\* then the expense context, then the user's message.
C3_SummaryBeforeUserMessage ==
    user_input # "" =>
        /\ Position(prompt, SystemText) = 1
        /\ Position(prompt, SystemText) < Position(prompt, parsed_summary)
        /\ Position(prompt, parsed_summary) < Position(prompt, user_input)

\* C3 amended: in the payload of a turn the instruction text comes first,
\* then the user's message, then the expense context, which is the text
\* parsed_summary holds in that run: a summary is never dropped.
C3_UserMessageBeforeSummary ==
    user_input # "" =>
        /\ Position(prompt, SystemText) = 1
        /\ Position(prompt, SystemText) < Position(prompt, user_input)
        /\ Position(prompt, user_input) < Position(prompt, parsed_summary)
        /\ Position(prompt, parsed_summary) = Len(prompt)

\* C3 witness: a turn taken while a summary of an uploaded table is held.
C3_Witness ==
    /\ user_input # ""
    /\ df.frame
    /\ prompt[Len(prompt)] = parsed_summary
    /\ parsed_summary \notin {NoData, FailedToProcess}

\* The run's upload failed: a file is attached and parse_expense_csv
\* returned None.
UploadFailed == uploaded_file # NoFile /\ df = NoFrame

\* C5 as stated: after a failed upload the summary is the placeholder the
\* session started with, and that is the expense context of a following turn.
C5_RevertsToNoData ==
    UploadFailed =>
        /\ parsed_summary = NoData
        /\ user_input # "" => prompt[Len(prompt)] = NoData

\* C5 amended: after a failed upload the summary is the fixed text "Failed to
\* process the uploaded file.", whatever was held before; it stays that text
\* until another file is attached, and it is the expense context of every
\* turn taken meanwhile.
C5_FailureTextHeld ==
    /\ [](UploadFailed =>
            /\ parsed_summary = FailedToProcess
            /\ banner.kind = "error"
            /\ user_input # "" => prompt[Len(prompt)] = FailedToProcess)
    /\ [][(parsed_summary = FailedToProcess
           /\ uploaded_file' \in {uploaded_file, NoFile})
          => /\ parsed_summary' = FailedToProcess
             /\ user_input' # "" =>
                   /\ prompt'[Len(prompt')] = FailedToProcess
                   /\ Len(messages') = Len(messages) + 2]_vars

\* C5 witness: a turn that got its reply while the failed file is attached,
\* after an earlier turn of the session.
C5_Witness ==
    /\ UploadFailed
    /\ user_input # ""
    /\ predict_result.ok
    /\ Len(messages) = 4
    /\ prompt[Len(prompt)] = FailedToProcess

\* C9: a run that takes no chat turn, which is every run an upload or a
\* removal starts, leaves the log as it was, whether the parse failed or
\* not; a failed parse shows in the error banner.
C9_UploadKeepsLog ==
    /\ [][user_input' = "" => messages' = messages]_vars
    /\ [](UploadFailed => banner.kind = "error")

\* C9 witness: a failed upload in a session whose log holds a turn.
C9_Witness ==
    /\ UploadFailed
    /\ banner.kind = "error"
    /\ user_input = ""
    /\ Len(messages) = 2

\* C10: only a run started by attaching a file changes the summary; a run
\* that takes a chat turn leaves it as it was, also when it parses the
\* attached file again, whatever predict did; and the expense context of
\* the turn is the summary held.
C10_OnlyIngestionChangesSummary ==
    /\ [][/\ user_input' # "" => parsed_summary' = parsed_summary
          /\ parsed_summary' # parsed_summary =>
                uploaded_file' # NoFile /\ user_input' = ""]_vars
    /\ [](user_input # "" => prompt[Len(prompt)] = parsed_summary)

\* C10 witness: a failed turn taken with a summarised file attached.
C10_Witness ==
    /\ user_input # ""
    /\ ~predict_result.ok
    /\ df.frame
    /\ uploaded_file # NoFile
    /\ parsed_summary \notin {NoData, FailedToProcess}
    /\ prompt[Len(prompt)] = parsed_summary

----------------------------------------------------------------------------
(* Properties of ingestion, stated on the uploaded table itself.           *)

\* The header names under which a required column may come.
NamesOf(col) ==
    CASE col = "Description" -> {"Description", "Narration / Description"}
      [] col = "Amount"      -> {"Amount", "Amount (INR)"}
      [] OTHER               -> {col}

Required == {"Date", "Description", "Amount", "Type"}

Lacks(file, col) == file.columns \cap NamesOf(col) = {}

HasAllRequired(file) == \A col \in Required : ~Lacks(file, col)

\* No required column comes both under its own name and under its alias.
HasEachRequiredOnce(file) ==
    \A col \in Required : Cardinality(file.columns \cap NamesOf(col)) = 1

CellOf(file, row, col) == row[CHOOSE c \in file.columns \cap NamesOf(col) : TRUE]

DebitSpellings == {"debit", "Debit", "DEBIT"}

\* The rows of the file whose Type is debit in any case, in the file's order.
DebitRows(file) ==
    SelectSeq(file.rows, LAMBDA row : CellOf(file, row, "Type") \in DebitSpellings)

\* The amount of a cell, a text that is no number counting as zero.
AmountOrZero(cell) == IF cell \in DOMAIN NumericText THEN NumericText[cell] ELSE 0

Ingested == uploaded_file # NoFile /\ uploaded_file.columns # {}

\* C4: a table that lacks a required column after the renaming fails to
\* parse: the error banner names a column it lacks, no frame is returned, no
\* total or top categories are computed and no summary is stored.
C4_MissingColumnAborts ==
    (Ingested /\ ~HasAllRequired(uploaded_file)) =>
        /\ df = NoFrame
        /\ top_categories = <<>>
        /\ parsed_summary = FailedToProcess
        /\ banner.kind = "error"
        /\ \E col \in Required :
              /\ Lacks(uploaded_file, col)
              /\ banner.text = "Error parsing CSV file: "
                     \o "CSV is missing the required column: '" \o col \o "'"

\* C4 witness: a table with rows that lacks only Amount.
C4_Witness ==
    /\ Ingested
    /\ uploaded_file.rows # <<>>
    /\ {col \in Required : Lacks(uploaded_file, col)} = {"Amount"}
    /\ banner.text
         = "Error parsing CSV file: CSV is missing the required column: 'Amount'"

\* The frame holds exactly the debit rows of the file, in the file's order.
RetainsDebitRows ==
    LET kept == DebitRows(uploaded_file)
    IN  /\ df.frame
        /\ banner.kind = "success"
        /\ Len(df.rows) = Len(kept)
        /\ \A i \in DOMAIN kept :
              /\ df.rows[i].Type = "debit"
              /\ df.rows[i].Description
                    = Lower(AsStr(CellOf(uploaded_file, kept[i], "Description")))
              /\ df.rows[i].Amount
                    = AmountOrZero(CellOf(uploaded_file, kept[i], "Amount"))

TotalsDebitRows ==
    LET kept  == DebitRows(uploaded_file)
        total == SumSeq([i \in DOMAIN kept |->
                            AmountOrZero(CellOf(uploaded_file, kept[i], "Amount"))])
    IN  /\ df.frame
        /\ parsed_summary
             = "- Total Debits: INR" \o Format2f(total)
               \o "\n- Top 5 Expense Categories:\n" \o CategoryLines(top_categories)

RowsWith(d) == {i \in DOMAIN df.rows : df.rows[i].Description = d}

FirstRow(d) == CHOOSE i \in RowsWith(d) : \A j \in RowsWith(d) : i <= j

\* d ranks before e: it occurs more often, or as often and first appears
\* earlier in the table.
RanksBefore(d, e) ==
    \/ Cardinality(RowsWith(d)) > Cardinality(RowsWith(e))
    \/ /\ Cardinality(RowsWith(d)) = Cardinality(RowsWith(e))
       /\ FirstRow(d) < FirstRow(e)

\* C8 as stated: the top categories are at most 5 distinct lowercased
\* descriptions of the retained debit rows, each with the number of retained
\* rows that hold it, in ranking order (more occurrences first, equal counts by first
\* appearance); every description left out ranks behind every one listed,
\* and none is left out while fewer than 5 are listed.
C8_TopFiveCategories ==
    df.frame =>
        LET top  == top_categories
            all  == {df.rows[i].Description : i \in DOMAIN df.rows}
            kept == {top[i].category : i \in DOMAIN top}
        IN  /\ Len(top) <= 5
            /\ Len(top) = IF Cardinality(all) < 5 THEN Cardinality(all) ELSE 5
            /\ kept \subseteq all
            /\ \A i \in DOMAIN top :
                  top[i].count = Cardinality(RowsWith(top[i].category))
            /\ \A i, j \in DOMAIN top :
                  i < j => RanksBefore(top[i].category, top[j].category)
            /\ \A d \in all \ kept : \A e \in kept : RanksBefore(e, d)

====
